---------------------------- MODULE Spec2Model ----------------------------
(***************************************************************************)
(* Model of the repository context-assembly engine:                        *)
(*   app/repo_processor.py  (filter_files, _score_file,                    *)
(*                           build_directory_tree, collect_repo_context)   *)
(*   app/github_client.py   (RepoFile, fetch_file_content,                 *)
(*                           get_file_commit_info)                         *)
(*                                                                         *)
(* Paths, file names and tree lines are strings, handled character by      *)
(* character.  A file's content is represented by its length in            *)
(* characters: the assembler only measures, cuts and copies it.            *)
(***************************************************************************)
EXTENDS Integers, Sequences, FiniteSets, TLC

VARIABLES
    files,      \* list[RepoFile] handed to the operation, mutated in place by _fetch
    resp,       \* what the network answers for each file: [content, meta]
    pc,         \* position of the operation under study
    to_fetch,   \* collect_repo_context: indices into files, in filter_files order
    semaphore,  \* asyncio.Semaphore(10): its current value
    task,       \* task[k]: state of the _fetch task of to_fetch[k]
    orphan,     \* orphan[k]: a retrieval of task k still running after the task raised
    result,     \* what collect_repo_context returned (digest parts) or raised
    out         \* result of the pure function applied by the function-level specifications

vars == <<files, resp, pc, to_fetch, semaphore, task, orphan, result, out>>

\* Python's None: in a slot that otherwise holds a str, and in one that otherwise
\* holds an int (a length or a count, never negative)
None == "None"
NoneInt == -1

----------------------------------------------------------------------------
(* Python str operations, on TLA+ strings.                                 *)

\* The characters that occur in the paths and lines handled here, in runs of
\* consecutive code points: <<first code point, characters>>.
CodeRuns == << <<32, " ">>, <<39, "'()">>, <<44, ",-./0123456789:">>,
              <<65, "ABCDEFGHIJKLMNOPQRSTUVWXYZ[">>, <<93, "]">>, <<95, "_">>,
              <<97, "abcdefghijklmnopqrstuvwxyz">> >>

Ch(s, i) == SubSeq(s, i, i)

\* ord(c) for a one-character string
OrdTable ==
    [c \in UNION {{Ch(CodeRuns[r][2], i) : i \in 1..Len(CodeRuns[r][2])} : r \in DOMAIN CodeRuns} |->
        LET r == CHOOSE r \in DOMAIN CodeRuns :
                    \E i \in 1..Len(CodeRuns[r][2]) : Ch(CodeRuns[r][2], i) = c
            i == CHOOSE i \in 1..Len(CodeRuns[r][2]) : Ch(CodeRuns[r][2], i) = c
        IN  CodeRuns[r][1] + i - 1]

Ord(c) == OrdTable[c]

UpperCaseLetters == "ABCDEFGHIJKLMNOPQRSTUVWXYZ"
LowerCaseLetters == "abcdefghijklmnopqrstuvwxyz"

LowerTable == [c \in DOMAIN OrdTable |->
                 IF \E i \in 1..Len(UpperCaseLetters) : Ch(UpperCaseLetters, i) = c
                 THEN Ch(LowerCaseLetters, CHOOSE i \in 1..Len(UpperCaseLetters) : Ch(UpperCaseLetters, i) = c)
                 ELSE c]

UpperTable == [c \in DOMAIN OrdTable |->
                 IF \E i \in 1..Len(LowerCaseLetters) : Ch(LowerCaseLetters, i) = c
                 THEN Ch(UpperCaseLetters, CHOOSE i \in 1..Len(LowerCaseLetters) : Ch(LowerCaseLetters, i) = c)
                 ELSE c]

\* the characters of s, each replaced through table
RECURSIVE MapChars(_, _)
MapChars(table, s) ==
    IF Len(s) = 0 THEN ""
    ELSE IF Len(s) = 1 THEN table[s]
    ELSE LET h == Len(s) \div 2
         IN  MapChars(table, SubSeq(s, 1, h)) \o MapChars(table, SubSeq(s, h + 1, Len(s)))

\* str.lower(), str.upper()
Lower(s) == MapChars(LowerTable, s)
Upper(s) == MapChars(UpperTable, s)

\* str.startswith, str.endswith, `sub in s`
StartsWith(s, p) == Len(p) <= Len(s) /\ SubSeq(s, 1, Len(p)) = p
EndsWith(s, p) == Len(p) <= Len(s) /\ SubSeq(s, Len(s) - Len(p) + 1, Len(s)) = p
Contains(s, sub) == \E i \in 1..(Len(s) - Len(sub) + 1) : SubSeq(s, i, i + Len(sub) - 1) = sub

\* s.count("/")
CountSlash(s) == Cardinality({i \in 1..Len(s) : Ch(s, i) = "/"})

\* the elements of a finite set of integers, ascending
RECURSIVE IntsIn(_, _, _)
IntsIn(S, lo, hi) ==
    IF lo > hi THEN <<>>
    ELSE IF lo = hi THEN (IF lo \in S THEN <<lo>> ELSE <<>>)
    ELSE LET m == (lo + hi) \div 2
         IN  IntsIn(S, lo, m) \o IntsIn(S, m + 1, hi)

SeqOfIntSet(S) ==
    IF S = {} THEN <<>>
    ELSE IntsIn(S, CHOOSE i \in S : \A j \in S : i <= j, CHOOSE i \in S : \A j \in S : j <= i)

\* s.split(c) for a one-character separator c
SplitOn(s, c) ==
    LET cuts == SeqOfIntSet({i \in 1..Len(s) : Ch(s, i) = c})
        n == Len(cuts)
    IN  [k \in 1..(n + 1) |->
            SubSeq(s, IF k = 1 THEN 1 ELSE cuts[k - 1] + 1,
                      IF k = n + 1 THEN Len(s) ELSE cuts[k] - 1)]

\* s.split("/")
Split(s) == SplitOn(s, "/")

\* s.rstrip("/")
RStripSlash(s) ==
    LET keep == {i \in 1..Len(s) : Ch(s, i) # "/"}
    IN  IF keep = {} THEN ""
        ELSE SubSeq(s, 1, CHOOSE i \in keep : \A j \in keep : j <= i)

\* sep.join(seq)
RECURSIVE Join(_, _)
Join(seq, sep) ==
    IF Len(seq) = 0 THEN ""
    ELSE IF Len(seq) = 1 THEN seq[1]
    ELSE LET h == Len(seq) \div 2
         IN  Join(SubSeq(seq, 1, h), sep) \o sep \o Join(SubSeq(seq, h + 1, Len(seq)), sep)

\* a < b on str: decided by the code points at the first position where they
\* differ; a proper prefix is smaller
StrLess(a, b) ==
    LET m == IF Len(a) < Len(b) THEN Len(a) ELSE Len(b)
        diff == {i \in 1..m : Ch(a, i) # Ch(b, i)}
    IN  IF diff = {} THEN Len(a) < Len(b)
        ELSE LET d == CHOOSE i \in diff : \A j \in diff : i <= j
             IN  Ord(Ch(a, d)) < Ord(Ch(b, d))

\* str(n) for an int n >= 0
StrOfInt(n) == ToString(n)

\* PurePosixPath(path).parts, for the relative, normalised paths of a git tree
Parts(path) == Split(path)

\* index of the last "." of name, 0 when there is none (str.rfind + 1)
RFindDot(name) ==
    IF \E i \in 1..Len(name) : Ch(name, i) = "."
    THEN CHOOSE i \in 1..Len(name) :
            Ch(name, i) = "." /\ \A j \in (i + 1)..Len(name) : Ch(name, j) # "."
    ELSE 0

\* PurePosixPath(name).suffix: from the last dot, unless it leads or ends the name
Suffix(name) ==
    LET i == RFindDot(name)
    IN  IF 1 < i /\ i < Len(name) THEN SubSeq(name, i, Len(name)) ELSE ""

\* PurePosixPath(name).stem
Stem(name) ==
    LET i == RFindDot(name)
    IN  IF 1 < i /\ i < Len(name) THEN SubSeq(name, 1, i - 1) ELSE name

----------------------------------------------------------------------------
(* repo_processor.py: configuration                                        *)

MAX_CONTEXT_CHARS == 80000
MAX_FILE_CHARS == 15000
MAX_FILES_TO_FETCH == 40

SKIP_DIRECTORIES == {
    "node_modules", ".git", "vendor", "dist", "build", "__pycache__",
    ".next", ".nuxt", ".tox", ".mypy_cache", ".pytest_cache", ".ruff_cache",
    "venv", ".venv", "env", ".env", "eggs", ".eggs", "bower_components",
    "jspm_packages", ".gradle", ".idea", ".vscode", ".vs", "target",
    "out", "coverage", ".nyc_output", ".cache", "tmp", "temp" }

SKIP_EXTENSIONS == {
    ".png", ".jpg", ".jpeg", ".gif", ".bmp", ".ico", ".svg", ".webp",
    ".mp3", ".mp4", ".avi", ".mov", ".wav", ".flac",
    ".zip", ".tar", ".gz", ".bz2", ".xz", ".rar", ".7z",
    ".woff", ".woff2", ".ttf", ".eot", ".otf",
    ".pdf", ".doc", ".docx", ".xls", ".xlsx", ".ppt",
    ".exe", ".dll", ".so", ".dylib", ".bin", ".o", ".a", ".class",
    ".pyc", ".pyo", ".wasm", ".map",
    ".lock", ".sum",
    ".min.js", ".min.css", ".bundle.js",
    ".DS_Store" }

SKIP_FILENAMES == {
    "package-lock.json", "yarn.lock", "pnpm-lock.yaml", "Pipfile.lock",
    "poetry.lock", "composer.lock", "Gemfile.lock", "Cargo.lock",
    "go.sum", "bun.lockb",
    ".DS_Store", "Thumbs.db",
    ".gitattributes" }

HIGH_PRIORITY_FILENAMES == {
    "README.md", "README.rst", "README.txt", "README",
    "package.json", "pyproject.toml", "setup.py", "setup.cfg",
    "Cargo.toml", "go.mod", "Gemfile", "build.gradle", "pom.xml",
    "composer.json", "mix.exs", "Makefile", "CMakeLists.txt",
    "Dockerfile", "docker-compose.yml", "docker-compose.yaml",
    ".env.example", "requirements.txt" }

MEDIUM_PRIORITY_FILENAMES == {
    "tsconfig.json", "webpack.config.js", "vite.config.ts", "vite.config.js",
    "rollup.config.js", "babel.config.js", ".babelrc",
    "jest.config.js", "jest.config.ts", "vitest.config.ts",
    "tox.ini", "pytest.ini", "conftest.py",
    ".github/workflows", "Procfile", "app.yaml", "vercel.json",
    "netlify.toml", "fly.toml",
    "CONTRIBUTING.md", "CHANGELOG.md", "LICENSE" }

CONFIG_EXTENSIONS == { ".toml", ".yaml", ".yml", ".json", ".ini", ".cfg", ".conf" }

SOURCE_EXTENSIONS == {
    ".py", ".js", ".ts", ".jsx", ".tsx", ".go", ".rs", ".rb", ".java",
    ".kt", ".cs", ".cpp", ".c", ".h", ".hpp", ".swift", ".m",
    ".php", ".ex", ".exs", ".erl", ".hs", ".lua", ".r", ".scala",
    ".clj", ".sh", ".bash", ".zsh", ".sql", ".graphql", ".proto",
    ".vue", ".svelte", ".astro", ".html", ".css", ".scss", ".less" }

----------------------------------------------------------------------------
(* repo_processor.py: classifier and scorer                                *)

\* RepoFile as get_repo_tree creates it
RepoFile(path, size) ==
    [path |-> path, size |-> size, content |-> NoneInt,
     last_commit_timestamp |-> None, commit_count |-> NoneInt]

_is_in_skip_directory(path) ==
    \E k \in 1..Len(Parts(path)) : Parts(path)[k] \in SKIP_DIRECTORIES

_has_skip_extension(path) ==
    LET lower == Lower(path)
    IN  \E ext \in SKIP_EXTENSIONS : EndsWith(lower, ext)

_get_filename(path) == Parts(path)[Len(Parts(path))]

_get_extension(path) == Lower(Suffix(_get_filename(path)))

README_SCORE == 1000
HIGH_SCORE == 800
MEDIUM_SCORE == 500
CONFIG_SCORE == 200
SOURCE_SCORE == 100
DEPTH_PENALTY == 500
SMALL_SIZE == 2000
SMALL_BONUS == 30
MID_SIZE == 5000
MID_BONUS == 15
LARGE_SIZE == 50000
LARGE_PENALTY == 50
ENTRY_BONUS == 300

entry_names == {"main", "app", "index", "server", "cli", "__main__", "mod"}

\* the tier: the first branch of the if/elif chain that matches
TierScore(f) ==
    LET name == _get_filename(f.path)
        ext  == _get_extension(f.path)
    IN  IF StartsWith(Upper(name), "README") THEN README_SCORE
        ELSE IF name \in HIGH_PRIORITY_FILENAMES THEN HIGH_SCORE
        ELSE IF name \in MEDIUM_PRIORITY_FILENAMES \/ f.path \in MEDIUM_PRIORITY_FILENAMES
             THEN MEDIUM_SCORE
        ELSE IF ext \in CONFIG_EXTENSIONS THEN CONFIG_SCORE
        ELSE IF ext \in SOURCE_EXTENSIONS THEN SOURCE_SCORE  \* `score + 50` has no effect
        ELSE 0

\* SizeAdjust with the penalty of a large file as heavy as a level of depth
SizeAdjustSteep(size) ==
    IF size < SMALL_SIZE THEN SMALL_BONUS
    ELSE IF size < MID_SIZE THEN MID_BONUS
    ELSE IF size > LARGE_SIZE THEN 0 - DEPTH_PENALTY
    ELSE 0

SizeAdjust(size) ==
    IF size < SMALL_SIZE THEN SMALL_BONUS
    ELSE IF size < MID_SIZE THEN MID_BONUS
    ELSE IF size > LARGE_SIZE THEN 0 - LARGE_PENALTY
    ELSE 0

EntryAdjust(f) ==
    IF Lower(Stem(_get_filename(f.path))) \in entry_names THEN ENTRY_BONUS ELSE 0

_score_file(f) ==
    LET depth == Len(Parts(f.path))
    IN  TierScore(f) - depth * DEPTH_PENALTY + SizeAdjust(f.size) + EntryAdjust(f)

MAX_FILE_SIZE == 500000

\* Skipped without the size test
SkippedWhateverSize(f) ==
    \/ _is_in_skip_directory(f.path)
    \/ _has_skip_extension(f.path)
    \/ _get_filename(f.path) \in SKIP_FILENAMES

\* the four `continue` tests of filter_files
Skipped(f) ==
    \/ _is_in_skip_directory(f.path)
    \/ _has_skip_extension(f.path)
    \/ _get_filename(f.path) \in SKIP_FILENAMES
    \/ f.size > MAX_FILE_SIZE

\* how many elements of b, sorted descending by key, have a key above bound
RECURSIVE CountAbove(_, _, _, _, _)
CountAbove(b, key, bound, lo, hi) ==
    IF lo > hi THEN lo - 1
    ELSE LET m == (lo + hi) \div 2
         IN  IF key[b[m]] > bound THEN CountAbove(b, key, bound, m + 1, hi)
             ELSE CountAbove(b, key, bound, lo, m - 1)

\* merge of two lists sorted descending by key; on equal keys a's elements first
RECURSIVE MergeDesc(_, _, _)
MergeDesc(a, b, key) ==
    IF Len(a) = 0 THEN b
    ELSE IF Len(b) = 0 THEN a
    ELSE LET h == (Len(a) + 1) \div 2
             c == CountAbove(b, key, key[a[h]], 1, Len(b))
         IN  MergeDesc(SubSeq(a, 1, h - 1), SubSeq(b, 1, c), key)
             \o <<a[h]>>
             \o MergeDesc(SubSeq(a, h + 1, Len(a)), SubSeq(b, c + 1, Len(b)), key)

\* list.sort(key=..., reverse=True): descending by key, and stable: elements
\* of equal key keep their order
RECURSIVE SortDesc(_, _)
SortDesc(idx, key) ==
    IF Len(idx) <= 1 THEN idx
    ELSE LET h == Len(idx) \div 2
         IN  MergeDesc(SortDesc(SubSeq(idx, 1, h), key),
                       SortDesc(SubSeq(idx, h + 1, Len(idx)), key), key)

\* filter_files, as the list of the indices (into fs) of the files it returns
filter_files(fs) ==
    LET filtered == SelectSeq([i \in 1..Len(fs) |-> i], LAMBDA i : ~Skipped(fs[i]))
        key == [i \in 1..Len(fs) |-> _score_file(fs[i])]
    IN  SortDesc(filtered, key)

----------------------------------------------------------------------------
(* repo_processor.py: directory tree                                       *)

\* how many elements of the sorted list b are smaller than x
RECURSIVE CountLess(_, _, _, _)
CountLess(b, x, lo, hi) ==
    IF lo > hi THEN lo - 1
    ELSE LET m == (lo + hi) \div 2
         IN  IF StrLess(b[m], x) THEN CountLess(b, x, m + 1, hi)
             ELSE CountLess(b, x, lo, m - 1)

RECURSIVE MergeStr(_, _)
MergeStr(a, b) ==
    IF Len(a) = 0 THEN b
    ELSE IF Len(b) = 0 THEN a
    ELSE LET h == (Len(a) + 1) \div 2
             c == CountLess(b, a[h], 1, Len(b))
         IN  MergeStr(SubSeq(a, 1, h - 1), SubSeq(b, 1, c))
             \o <<a[h]>>
             \o MergeStr(SubSeq(a, h + 1, Len(a)), SubSeq(b, c + 1, Len(b)))

\* sorted(seq) for a list of str
RECURSIVE Sorted(_)
Sorted(seq) ==
    IF Len(seq) <= 1 THEN seq
    ELSE LET h == Len(seq) \div 2
         IN  MergeStr(Sorted(SubSeq(seq, 1, h)), Sorted(SubSeq(seq, h + 1, Len(seq))))

\* union of two sorted duplicate-free lists, sorted and duplicate-free
RECURSIVE MergeUnique(_, _)
MergeUnique(a, b) ==
    IF Len(a) = 0 THEN b
    ELSE IF Len(b) = 0 THEN a
    ELSE LET h == (Len(a) + 1) \div 2
             c == CountLess(b, a[h], 1, Len(b))
             d == IF c < Len(b) /\ b[c + 1] = a[h] THEN c + 1 ELSE c
         IN  MergeUnique(SubSeq(a, 1, h - 1), SubSeq(b, 1, c))
             \o <<a[h]>>
             \o MergeUnique(SubSeq(a, h + 1, Len(a)), SubSeq(b, d + 1, Len(b)))

\* sorted(set(seq)): a Python set of str is kept as the sorted list of its
\* distinct elements, so that len() is Len and sorted() is the list itself
RECURSIVE SortedSet(_)
SortedSet(seq) ==
    IF Len(seq) <= 1 THEN seq
    ELSE LET h == Len(seq) \div 2
         IN  MergeUnique(SortedSet(SubSeq(seq, 1, h)), SortedSet(SubSeq(seq, h + 1, Len(seq))))

\* concatenation of a list of lists
RECURSIVE Flatten(_)
Flatten(seqs) ==
    IF Len(seqs) = 0 THEN <<>>
    ELSE IF Len(seqs) = 1 THEN seqs[1]
    ELSE LET h == Len(seqs) \div 2
         IN  Flatten(SubSeq(seqs, 1, h)) \o Flatten(SubSeq(seqs, h + 1, Len(seqs)))

\* seq[:n]
Prefix(seq, n) == SubSeq(seq, 1, IF n < Len(seq) THEN n ELSE Len(seq))

\* "  " * depth
RECURSIVE Indent(_)
Indent(depth) ==
    IF depth <= 0 THEN ""
    ELSE IF depth = 1 THEN "  "
    ELSE Indent(depth \div 2) \o Indent(depth - depth \div 2)

\* build_directory_tree: the ancestors of one path, "/".join(parts[:i]) + "/"
DirPrefixes(path) ==
    LET parts == Parts(path)
    IN  [i \in 1..(Len(parts) - 1) |-> Join(SubSeq(parts, 1, i), "/") \o "/"]

\* build_directory_tree: the set `dirs` and the list `file_paths`
TreeDirs(fs) == SortedSet(Flatten([k \in 1..Len(fs) |-> DirPrefixes(fs[k].path)]))
FilePaths(fs) == [k \in 1..Len(fs) |-> fs[k].path]

MAX_LINES == 150
MAX_DIRS == 100

\* _build_tree_full: the line of one entry
EntryLine(entry) ==
    LET isDir == EndsWith(entry, "/")
        depth == CountSlash(entry) - (IF isDir THEN 1 ELSE 0)
        base  == LET p == Split(RStripSlash(entry)) IN p[Len(p)]
    IN  Indent(depth) \o base \o (IF isDir THEN "/" ELSE "")

\* _build_tree_full: sorted(dirs) + sorted(file_paths)
AllEntries(dirs, file_paths) == dirs \o Sorted(file_paths)

\* _build_tree_full breaking one entry early: the test len(lines) >= max_lines
\* made before the line is appended
_build_tree_full_early(dirs, file_paths, max_lines) ==
    LET all_entries == AllEntries(dirs, file_paths)
        n == Len(all_entries)
        shown == IF n < max_lines THEN n ELSE max_lines - 1
        lines == [k \in 1..shown |-> EntryLine(all_entries[k])]
    IN  IF n >= max_lines
        THEN Append(lines, "  ... (" \o StrOfInt(n - max_lines) \o " more entries)")
        ELSE lines

_build_tree_full(dirs, file_paths, max_lines) ==
    LET all_entries == AllEntries(dirs, file_paths)
        n == Len(all_entries)
        \* the loop breaks right after the line that makes len(lines) >= max_lines
        shown == IF max_lines <= 1 THEN (IF n >= 1 THEN 1 ELSE 0)
                 ELSE IF n < max_lines THEN n ELSE max_lines
        lines == [k \in 1..shown |-> EntryLine(all_entries[k])]
    IN  IF shown >= max_lines /\ shown >= 1
        THEN Append(lines, "  ... (" \o StrOfInt(n - max_lines) \o " more entries)")
        ELSE lines

\* The first line of the summary, 63 characters long in the source; its three
\* non-ASCII characters are written "---" here.
SUMMARY_HEADER == "[Summary --- over 100 directories, showing top level breakdown]"

MAX_TOP_FILES == 30
MAX_TYPES == 5
MAX_SAMPLE == 5

\* p.suffix or "(no_ext)"
SuffixOrNoExt(name) ==
    LET sfx == Suffix(name) IN IF sfx = "" THEN "(no_ext)" ELSE sfx

\* collections.Counter over a list: <<key, count>> pairs in first-seen order
Counter(seq) ==
    LET first == SeqOfIntSet({i \in 1..Len(seq) : \A j \in 1..(i - 1) : seq[j] # seq[i]})
    IN  [k \in 1..Len(first) |->
            <<seq[first[k]], Cardinality({j \in 1..Len(seq) : seq[j] = seq[first[k]]})>>]

\* Counter.most_common(): by count, descending, equal counts in first-seen order
MostCommon(counter) ==
    LET idx == [k \in 1..Len(counter) |-> k]
        key == [k \in 1..Len(counter) |-> counter[k][2]]
        ord == SortDesc(idx, key)
    IN  [k \in 1..Len(ord) |-> counter[ord[k]]]

\* ", ".join(f"{typ}: {cnt}" ...)
TypeStr(pairs) ==
    Join([k \in 1..Len(pairs) |-> pairs[k][1] \o ": " \o StrOfInt(pairs[k][2])], ", ")

\* sum(counter.values())
RECURSIVE SumCounts(_)
SumCounts(counter) ==
    IF Len(counter) = 0 THEN 0
    ELSE IF Len(counter) = 1 THEN counter[1][2]
    ELSE LET h == Len(counter) \div 2
         IN  SumCounts(SubSeq(counter, 1, h)) + SumCounts(SubSeq(counter, h + 1, Len(counter)))

\* _build_tree_summary: the "Top-level files:" block
TopLevelLines(parts) ==
    LET tops == SelectSeq(parts, LAMBDA p : Len(p) = 1)
        top_level_files == [k \in 1..Len(tops) |-> tops[k][1]]
        sorted_top == Sorted(top_level_files)
        listed == Prefix(sorted_top, MAX_TOP_FILES)
        remaining == SubSeq(sorted_top, MAX_TOP_FILES + 1, Len(sorted_top))
        type_counts == Counter([k \in 1..Len(remaining) |-> SuffixOrNoExt(remaining[k])])
    IN  IF Len(top_level_files) = 0 THEN <<>>
        ELSE <<"", "Top-level files:">>
             \o [k \in 1..Len(listed) |-> "  " \o listed[k]]
             \o (IF Len(sorted_top) > MAX_TOP_FILES
                 THEN <<"  ... (" \o StrOfInt(Len(remaining)) \o " more: "
                        \o TypeStr(MostCommon(type_counts)) \o ")">>
                 ELSE <<>>)

\* _build_tree_summary: the four lines of one top-level directory d
DirBlock(d, parts) ==
    LET under == SelectSeq(parts, LAMBDA p : p[1] = d /\ Len(p) >= 2)
        file_types == Counter([k \in 1..Len(under) |-> SuffixOrNoExt(under[k][Len(under[k])])])
        deep == SelectSeq(under, LAMBDA p : Len(p) > 2)
        subdirs == SortedSet([k \in 1..Len(deep) |-> deep[k][2]])
        sample == Join(Prefix(subdirs, MAX_SAMPLE), ", ")
        ellipsis == IF Len(subdirs) > MAX_SAMPLE THEN "..." ELSE ""
        top_types == Prefix(MostCommon(file_types), MAX_TYPES)
        extra == IF Len(file_types) > MAX_TYPES
                 THEN ", ... (" \o StrOfInt(SumCounts(file_types)) \o " files)" ELSE ""
    IN  <<"", d \o "/",
          IF Len(subdirs) > 0
          THEN "  Sub-directories: " \o StrOfInt(Len(subdirs))
               \o " (" \o sample \o ellipsis \o ")"
          ELSE "  Sub-directories: 0",
          IF Len(file_types) > 0
          THEN "  File types: " \o TypeStr(top_types) \o extra
          ELSE "  No files detected">>

\* _build_tree_summary: the loop over sorted(top_level_dirs).  Each directory
\* appends the four lines of its block; the loop breaks after the first
\* directory that leaves more than max_lines lines, adding the truncation line.
DirLoop(lines, ds, parts, max_lines) ==
    LET over == {k \in 1..Len(ds) : Len(lines) + 4 * k > max_lines}
        last == IF over = {} THEN Len(ds) ELSE CHOOSE k \in over : \A j \in over : k <= j
    IN  lines \o Flatten([k \in 1..last |-> DirBlock(ds[k], parts)])
        \o (IF over = {} THEN <<>> ELSE <<"  ... (output truncated)">>)

\* _build_tree_summary; parts[k] is PurePosixPath(file_paths[k]).parts
_build_tree_summary(file_paths, max_lines) ==
    LET parts == [k \in 1..Len(file_paths) |-> Parts(file_paths[k])]
        nested == SelectSeq(parts, LAMBDA p : Len(p) > 1)
        top_level_dirs == SortedSet([k \in 1..Len(nested) |-> nested[k][1]])
    IN  DirLoop(<<SUMMARY_HEADER>> \o TopLevelLines(parts), top_level_dirs, parts, max_lines)

\* TreeLines switching to the summary at MAX_DIRS directories already
TreeLinesAtLeast(fs, max_lines) ==
    LET dirs == TreeDirs(fs)
    IN  IF Len(dirs) >= MAX_DIRS
        THEN _build_tree_summary(FilePaths(fs), max_lines)
        ELSE _build_tree_full(dirs, FilePaths(fs), max_lines)

\* build_directory_tree, before the final "\n".join(lines)
TreeLines(fs, max_lines) ==
    LET dirs == TreeDirs(fs)
    IN  IF Len(dirs) > MAX_DIRS
        THEN _build_tree_summary(FilePaths(fs), max_lines)
        ELSE _build_tree_full(dirs, FilePaths(fs), max_lines)

build_directory_tree(fs) == Join(TreeLines(fs, MAX_LINES), "\n")

----------------------------------------------------------------------------
(* github_client.py: the two retrievals of one file                        *)

\* A retrieval that raises, and the exception it raises.
RateLimitError == "GitHubClientError: GitHub API rate limit exceeded. Try again later."
\* the exception of a request that gets no response (transport failure, timeout)
TransportError == "httpx.HTTPError"
Raised(e) == [raised |-> e, value |-> <<>>]
Returned(v) == [raised |-> None, value |-> <<v>>]
IsRaised(r) == r.raised # None
ValueOf(r) == r.value[1]

HTTP_OK == 200
HTTP_FORBIDDEN == 403
HTTP_NOT_FOUND == 404

\* fetch_file_content without its try/except: a transport failure is raised
fetch_file_content_raising(r) ==
    IF r.error THEN Raised(TransportError)
    ELSE IF r.status # HTTP_OK THEN Returned(NoneInt)
    ELSE Returned(r.text)

\* GitHubClient.fetch_file_content.  r is what the raw-content request meets:
\* [error |-> TRUE] (httpx.HTTPError: transport failure or timeout) or a response
\* [error |-> FALSE, status, text] with text the length of the decoded body.
fetch_file_content(r) ==
    IF r.error THEN Returned(NoneInt)
    ELSE IF r.status # HTTP_OK THEN Returned(NoneInt)
    ELSE Returned(r.text)

\* GitHubClient._parse_commit_count: last_page is the page number of the Link
\* header's rel="last" part, 0 when the header or that part is missing.
_parse_commit_count(last_page, fallback) ==
    IF last_page > 0 THEN last_page ELSE fallback

\* GitHubClient.get_file_commit_info.  r is what the commits request meets:
\* [error |-> TRUE] (the request raises, and nothing here catches it) or a response
\* [error |-> FALSE, status, commits (length of the JSON list, per_page = 1),
\*  committer_date, author_date, last_page].
get_file_commit_info(r) ==
    IF r.error THEN Raised(TransportError)
    ELSE IF r.status = HTTP_FORBIDDEN THEN Raised(RateLimitError)
    ELSE IF r.status # HTTP_OK THEN Returned(<<None, NoneInt>>)
    ELSE IF r.commits = 0 THEN Returned(<<None, 0>>)
    ELSE Returned(<<IF r.committer_date \notin {None, ""} THEN r.committer_date
                    ELSE r.author_date,
                    _parse_commit_count(r.last_page, r.commits)>>)

----------------------------------------------------------------------------
(* repo_processor.py: context assembly                                     *)

\* The three backquotes of a Markdown fence (a backquote cannot be written in a
\* TLA+ string).
FENCE == "~~~"

TRUNCATED_MARK == "\n\n... [truncated]"

\* truncate_content, on the length of the content
truncate_content(content) ==
    IF content <= MAX_FILE_CHARS THEN content ELSE MAX_FILE_CHARS + Len(TRUNCATED_MARK)

\* A part of the digest: the text before the content, the number of content
\* characters, the text after it; len is the length of the whole part.
Part(kind, path, head, body, tail) ==
    [kind |-> kind, path |-> path, head |-> head, body |-> body, tail |-> tail,
     len |-> Len(head) + body + Len(tail)]

\* parts[0]: f"## Directory Structure\n```\n{tree}\n```\n"
TreeSection(fs) ==
    Part("tree", "", "## Directory Structure\n" \o FENCE \o "\n" \o build_directory_tree(fs),
         0, "\n" \o FENCE \o "\n")

\* the section of a file whose content is present
FileSection(f) ==
    LET content == truncate_content(f.content)
        last_commit == IF f.last_commit_timestamp \in {None, ""} THEN "unknown"
                       ELSE f.last_commit_timestamp
        commit_count == IF f.commit_count # NoneInt THEN StrOfInt(f.commit_count) ELSE "unknown"
    IN  Part("file", f.path,
             "## File: " \o f.path \o "\n"
                \o "Last commit timestamp: " \o last_commit \o "\n"
                \o "Commit count: " \o commit_count \o "\n"
                \o FENCE \o "\n",
             content,
             "\n" \o FENCE \o "\n")

PARTIAL_MIN == 500
PARTIAL_MARGIN == 200

\* the cut section: content[:remaining - 200] of the truncated content
PartialSection(f, remaining) ==
    LET content == truncate_content(f.content)
        cut == remaining - PARTIAL_MARGIN
    IN  Part("partial", f.path,
             "## File: " \o f.path \o "\n" \o FENCE \o "\n",
             IF content < cut THEN content ELSE cut,
             "\n... [truncated]\n" \o FENCE \o "\n")

\* sum of the len of a list of parts
RECURSIVE SumLen(_)
SumLen(parts) ==
    IF Len(parts) = 0 THEN 0
    ELSE IF Len(parts) = 1 THEN parts[1].len
    ELSE LET h == Len(parts) \div 2
         IN  SumLen(SubSeq(parts, 1, h)) + SumLen(SubSeq(parts, h + 1, Len(parts)))

\* len("\n".join(parts))
DigestLen(parts) == SumLen(parts) + (Len(parts) - 1)

\* The assembly loop of collect_repo_context over cand, the candidates whose
\* content is present (in to_fetch order), secs their full sections.

\* total_chars when the loop reaches candidate k
TotalChars(tree, secs, k) == tree.len + SumLen(SubSeq(secs, 1, k - 1))

\* the candidates whose full section does not fit: total_chars + len(section) > MAX_CONTEXT_CHARS
Overflowing(tree, secs) ==
    {k \in 1..Len(secs) : TotalChars(tree, secs, k) + secs[k].len > MAX_CONTEXT_CHARS}

\* LastPart with the test remaining >= 500
LastPartAtLeast(f, remaining) ==
    IF remaining >= PARTIAL_MIN THEN <<PartialSection(f, remaining)>> ELSE <<>>

\* the branch taken at the candidate that does not fit, before the break
LastPart(f, remaining) ==
    IF remaining > PARTIAL_MIN THEN <<PartialSection(f, remaining)>> ELSE <<>>

\* parts when the loop breaks at candidate stop
PartsUpTo(fs, tree, cand, secs, stop) ==
    <<tree>> \o SubSeq(secs, 1, stop - 1)
        \o LastPart(fs[cand[stop]], MAX_CONTEXT_CHARS - TotalChars(tree, secs, stop))

\* parts at the end of the loop: it breaks at the first candidate that does not fit
PartsOf(fs, tree, cand, secs, over) ==
    IF over = {} THEN <<tree>> \o secs
    ELSE PartsUpTo(fs, tree, cand, secs, CHOOSE k \in over : \A j \in over : k <= j)

\* the candidates the loop does not skip
WithContent(fs, tf) == SelectSeq(tf, LAMBDA i : fs[i].content # NoneInt)

AssembleFrom(fs, tree, cand, secs) == PartsOf(fs, tree, cand, secs, Overflowing(tree, secs))

AssembleOver(fs, tree, cand) ==
    AssembleFrom(fs, tree, cand, [k \in 1..Len(cand) |-> FileSection(fs[cand[k]])])

\* parts, the list that collect_repo_context joins and returns
Assemble(fs, tf) == AssembleOver(fs, TreeSection(fs), WithContent(fs, tf))

----------------------------------------------------------------------------
(* repo_processor.py: collect_repo_context, its _fetch tasks and the two    *)
(* gathers                                                                 *)

SEMAPHORE_PERMITS == 10

Tasks == 1..Len(to_fetch)

\* the file a task works on
FileOf(k) == to_fetch[k]

NoResult == [kind |-> "none"]

\* collect_repo_context up to the outer gather: filter, cut to the first 40,
\* create the semaphore and one _fetch task per candidate
Start ==
    /\ pc = "start"
    /\ LET prioritized == filter_files(files)
       IN  to_fetch' = Prefix(prioritized, MAX_FILES_TO_FETCH)
    /\ semaphore' = SEMAPHORE_PERMITS
    /\ task' = [k \in 1..Len(to_fetch') |-> "waiting"]
    /\ orphan' = [k \in 1..Len(to_fetch') |-> FALSE]
    /\ pc' = "gather"
    /\ UNCHANGED <<files, resp, result, out>>

\* a semaphore that lets every task in
CanAcquireAlways(k) == TRUE

\* Semaphore.acquire allows a task in when the value is positive
CanAcquire(k) == semaphore > 0

\* _fetch: `async with semaphore`, then both retrievals are started.  Tasks
\* reach the semaphore in creation order and waiters are woken first-in first-out.
Acquire(k) ==
    /\ pc # "start"
    /\ task[k] = "waiting"
    /\ \A j \in 1..(k - 1) : task[j] # "waiting"
    /\ CanAcquire(k)
    /\ semaphore' = semaphore - 1
    /\ task' = [task EXCEPT ![k] = "running"]
    /\ UNCHANGED <<files, resp, pc, to_fetch, orphan, result, out>>

\* what the inner gather of task k delivers: the first exception raised by one of
\* the two retrievals, else both results
ContentResult(k) == fetch_file_content(resp[FileOf(k)].content)
CommitInfo(k) == get_file_commit_info(resp[FileOf(k)].meta)

\* the record of file f after `f.content = content` (when not None) and
\* `f.last_commit_timestamp, f.commit_count = commit_info`
Enriched(f, content, commit_info) ==
    [f EXCEPT !.content = IF content # NoneInt THEN content ELSE @,
              !.last_commit_timestamp = commit_info[1],
              !.commit_count = commit_info[2]]

\* the writes of every task going to the file the loop variable names last (a
\* closure that binds the variable, not its value)
WriteTargetLast(k) == to_fetch[Len(to_fetch)]

\* the writes of every task going to the file of the first task
WriteTargetFirst(k) == to_fetch[1]

\* the target of the writes of task k
WriteTarget(k) == FileOf(k)

\* _fetch: both retrievals returned; the record is written and the permit released
FetchDone(k) ==
    /\ pc # "start"
    /\ task[k] = "running"
    /\ ~IsRaised(ContentResult(k)) /\ ~IsRaised(CommitInfo(k))
    /\ files' = [files EXCEPT ![WriteTarget(k)] =
                    Enriched(@, ValueOf(ContentResult(k)), ValueOf(CommitInfo(k)))]
    /\ semaphore' = semaphore + 1
    /\ task' = [task EXCEPT ![k] = "done"]
    /\ UNCHANGED <<resp, pc, to_fetch, orphan, result, out>>

\* _fetch: one retrieval raised; gather re-raises it in _fetch at once, the permit
\* is released and nothing is written.  The other retrieval is not cancelled: when
\* it had not returned yet (late) it keeps running.
FetchRaise(k) ==
    /\ pc # "start"
    /\ task[k] = "running"
    /\ IsRaised(ContentResult(k)) \/ IsRaised(CommitInfo(k))
    /\ \E late \in BOOLEAN : orphan' = [orphan EXCEPT ![k] = late]
    /\ semaphore' = semaphore + 1
    /\ task' = [task EXCEPT ![k] = "failed"]
    /\ UNCHANGED <<files, resp, pc, to_fetch, result, out>>

\* the retrieval left running by a task that raised returns; its result is dropped
OrphanDone(k) ==
    /\ orphan[k]
    /\ orphan' = [orphan EXCEPT ![k] = FALSE]
    /\ UNCHANGED <<files, resp, pc, to_fetch, semaphore, task, result, out>>

\* the exception of task k: the one its inner gather met first
TaskErrors(k) ==
    {r.raised : r \in {r \in {ContentResult(k), CommitInfo(k)} : IsRaised(r)}}

\* the outer gather: the first exception of a task is raised in
\* collect_repo_context, which ends with it; the other tasks are not cancelled
GatherRaise ==
    /\ pc = "gather"
    /\ \E k \in Tasks :
        /\ task[k] = "failed"
        /\ \E e \in TaskErrors(k) : result' = [kind |-> "raised", error |-> e]
    /\ pc' = "raised"
    /\ UNCHANGED <<files, resp, to_fetch, semaphore, task, orphan, out>>

\* the outer gather returned: every task is done; the digest is assembled
AssembleDigest ==
    /\ pc = "gather"
    /\ \A k \in Tasks : task[k] = "done"
    /\ result' = [kind |-> "digest", parts |-> Assemble(files, to_fetch)]
    /\ pc' = "returned"
    /\ UNCHANGED <<files, resp, to_fetch, semaphore, task, orphan, out>>

----------------------------------------------------------------------------
(* Inputs: repositories as get_repo_tree lists them, and what the network  *)
(* answers for each file                                                   *)

ContentOK(n) == [error |-> FALSE, status |-> HTTP_OK, text |-> n]
ContentStatus(st) == [error |-> FALSE, status |-> st, text |-> 0]
ContentError == [error |-> TRUE, status |-> 0, text |-> 0]

MetaOK(committer_date, author_date, last_page) ==
    [error |-> FALSE, status |-> HTTP_OK, commits |-> 1, committer_date |-> committer_date,
     author_date |-> author_date, last_page |-> last_page]
MetaEmpty ==
    [error |-> FALSE, status |-> HTTP_OK, commits |-> 0, committer_date |-> None,
     author_date |-> None, last_page |-> 0]
MetaStatus(st) ==
    [error |-> FALSE, status |-> st, commits |-> 0, committer_date |-> None,
     author_date |-> None, last_page |-> 0]
MetaError ==
    [error |-> TRUE, status |-> 0, commits |-> 0, committer_date |-> None,
     author_date |-> None, last_page |-> 0]

ADate == "2024-01-15T10:30:00Z"
MetaUsual == MetaOK(ADate, ADate, 57)

\* a file and the answers to its two requests; its size is the size of its body
\* when the body is served
Served(path, size, content, meta) ==
    [file |-> RepoFile(path, IF ~content.error /\ content.status = HTTP_OK
                             THEN content.text ELSE size),
     resp |-> [content |-> content, meta |-> meta]]

\* a file that no scenario fetches (filter_files drops it)
Unfetched(path, size) == Served(path, size, ContentStatus(HTTP_NOT_FOUND), MetaStatus(HTTP_NOT_FOUND))

Scenario(served) ==
    [files |-> [k \in 1..Len(served) |-> served[k].file],
     resp  |-> [k \in 1..Len(served) |-> served[k].resp]]

Pad3(i) == (IF i < 10 THEN "00" ELSE IF i < 100 THEN "0" ELSE "") \o ToString(i)

ContentChoices ==
    {ContentError, ContentStatus(HTTP_NOT_FOUND), ContentOK(0), ContentOK(600), ContentOK(20000)}

MetaChoices ==
    {MetaError, MetaStatus(HTTP_FORBIDDEN), MetaStatus(HTTP_NOT_FOUND), MetaEmpty, MetaUsual,
     MetaOK(None, "2023-11-02T08:00:00Z", 0)}

\* the four files of the ranking scenario, every answer for the two candidates
SmallScenarios ==
    {Scenario(<<Served("README.md", 500, c1, m1),
                Served("src/main.py", 1200, c2, m2),
                Unfetched("node_modules/x/y.js", 300),
                Unfetched("package-lock.json", 900)>>) :
        c1 \in ContentChoices, m1 \in MetaChoices, c2 \in ContentChoices, m2 \in MetaChoices}

\* a repository whose first files fill most of the budget: BigFiles files of
\* 20000 characters, then three files of chosen sizes
BigNames == <<"README.md", "setup.py", "Makefile", "Dockerfile", "pyproject.toml",
              "requirements.txt", "go.mod">>
BigFiles == 5

SixthChoices ==
    {ContentError, ContentOK(1000), ContentOK(3763), ContentOK(3764), ContentOK(3964),
     ContentOK(4264), ContentOK(20000)}
SeventhChoices == {ContentError, ContentOK(100), ContentOK(20000)}

BudgetScenarios ==
    {Scenario([k \in 1..BigFiles |-> Served(BigNames[k], 20000, ContentOK(20000), MetaUsual)]
              \o <<Served("tox.ini", 700, c6, MetaUsual),
                   Served("renovate.json", 700, c7, MetaUsual),
                   Served("util.py", 700, ContentOK(50), MetaUsual)>>) :
        c6 \in SixthChoices, c7 \in SeventhChoices}

\* more candidates than permits: ManyFiles equal source files; bad names the one
\* whose content request fails, the one whose metadata request is rate-limited
\* and the one whose metadata request gets no response (0: none)
ManyFiles == 11

ManyScenarios ==
    {Scenario([k \in 1..ManyFiles |->
                  Served("m" \o Pad3(k) \o ".py", 100,
                         IF k = bad[1] THEN ContentError ELSE ContentOK(100),
                         IF k = bad[2] THEN MetaStatus(HTTP_FORBIDDEN)
                         ELSE IF k = bad[3] THEN MetaError ELSE MetaUsual)]) :
        bad \in {<<0, 0, 0>>, <<3, 0, 0>>, <<0, 2, 0>>, <<0, ManyFiles, 0>>, <<0, 2, 1>>}}

\* a repository of images: one directory, Images unfetched files in it, and two
\* candidates at the root
ImageScenarios ==
    {Scenario([k \in 1..n |-> Unfetched("assets/img" \o Pad3(k) \o ".png", 4000)]
              \o <<Served("setup.py", 600, c, MetaUsual),
                   Served("README.md", 900, ContentOK(900), MetaUsual)>>) :
        n \in {MAX_LINES - 4, MAX_LINES - 3, MAX_LINES - 2},
        c \in {ContentError, ContentOK(600)}}

\* a repository of data files in MAX_DIRS + 1 directories, a candidate at the root
\* and one below it
WideScenarios ==
    {Scenario([k \in 1..MAX_DIRS |-> Unfetched("data/s" \o Pad3(k) \o "/x.bin", 4000)]
              \o <<Served("README.md", 900, ContentOK(900), MetaUsual),
                   Served("src/main.py", 600, c, MetaUsual)>>) :
        c \in {ContentError, ContentOK(600)}}

\* the families of scenarios
ScenarioFamilies ==
    {SmallScenarios, BudgetScenarios, ManyScenarios, ImageScenarios, WideScenarios}

----------------------------------------------------------------------------
(* Spec: one call of collect_repo_context                                  *)

Init ==
    /\ \E family \in ScenarioFamilies : \E sc \in family :
            files = sc.files /\ resp = sc.resp
    /\ pc = "start"
    /\ to_fetch = <<>>
    /\ semaphore = 0
    /\ task = <<>>
    /\ orphan = <<>>
    /\ result = NoResult
    /\ out = None

Next ==
    \/ Start
    \/ \E k \in Tasks : Acquire(k)
    \/ \E k \in Tasks : FetchDone(k)
    \/ \E k \in Tasks : FetchRaise(k)
    \/ \E k \in Tasks : OrphanDone(k)
    \/ GatherRaise
    \/ AssembleDigest

Spec == Init /\ [][Next]_vars

----------------------------------------------------------------------------
(* SpecFilter: one call of filter_files                                    *)

\* the files that filter_files is called with: every tier, every exclusion
\* test, and two files of equal score
FilterPool ==
    {RepoFile("README.md", 500), RepoFile("src/main.py", 1200),
     RepoFile("node_modules/x/y.js", 300), RepoFile("package-lock.json", 900),
     RepoFile("a.py", 100), RepoFile("b.py", 100), RepoFile("logo.PNG", 100),
     RepoFile("dump.sql", MAX_FILE_SIZE), RepoFile("dump.sql", MAX_FILE_SIZE + 1)}

\* the list of the ranking scenario
FilterExample ==
    <<RepoFile("README.md", 500), RepoFile("src/main.py", 1200),
      RepoFile("node_modules/x/y.js", 300), RepoFile("package-lock.json", 900)>>

MaxFilterLen == 2

FilterInputs ==
    UNION {[1..n -> FilterPool] : n \in 0..MaxFilterLen} \cup {FilterExample}

InitFilter ==
    /\ files \in FilterInputs
    /\ resp = <<>>
    /\ pc = "filter"
    /\ to_fetch = <<>>
    /\ semaphore = 0
    /\ task = <<>>
    /\ orphan = <<>>
    /\ result = NoResult
    /\ out = <<>>

\* prioritized = filter_files(files)
FilterFiles ==
    /\ pc = "filter"
    /\ out' = filter_files(files)
    /\ pc' = "filtered"
    /\ UNCHANGED <<files, resp, to_fetch, semaphore, task, orphan, result>>

NextFilter == FilterFiles

SpecFilter == InitFilter /\ [][NextFilter]_vars

----------------------------------------------------------------------------
(* SpecScore: _score_file on a root README.md and on another root file     *)

\* the sizes around every threshold of the size adjustment, up to the largest
\* size filter_files lets through
ScoreSizes ==
    {0, SMALL_SIZE - 1, SMALL_SIZE, MID_SIZE - 1, MID_SIZE, LARGE_SIZE, LARGE_SIZE + 1,
     MAX_FILE_SIZE}

\* root-level names of every tier, with and without an entry-point stem, and
\* names that begin with README in some case
ScoreNames ==
    {n \in HIGH_PRIORITY_FILENAMES \cup MEDIUM_PRIORITY_FILENAMES : ~Contains(n, "/")}
    \cup {stem \o ext : stem \in entry_names \cup {"Main", "x"},
                        ext \in {".py", ".json", ".txt", ""}}
    \cup {"readme.txt", "ReadMe", "Readme.markdown"}

InitScore ==
    /\ \E s1 \in ScoreSizes, s2 \in ScoreSizes, n \in ScoreNames :
            files = <<RepoFile("README.md", s1), RepoFile(n, s2)>>
    /\ resp = <<>>
    /\ pc = "score"
    /\ to_fetch = <<>>
    /\ semaphore = 0
    /\ task = <<>>
    /\ orphan = <<>>
    /\ result = NoResult
    /\ out = <<>>

\* the sort key of each file
ScoreFiles ==
    /\ pc = "score"
    /\ out' = [k \in 1..Len(files) |-> _score_file(files[k])]
    /\ pc' = "scored"
    /\ UNCHANGED <<files, resp, to_fetch, semaphore, task, orphan, result>>

NextScore == ScoreFiles

SpecScore == InitScore /\ [][NextScore]_vars

----------------------------------------------------------------------------
(* SpecTree: one call of build_directory_tree                              *)

\* d directories at the root, each with perdir files
FlatRepo(d, perdir) ==
    Flatten([k \in 1..d |->
        [j \in 1..perdir |-> RepoFile("pkg" \o Pad3(k) \o "/f" \o ToString(j) \o ".txt", 10)]])

\* one directory at the root with d - 1 directories in it, each with perdir files
DeepRepo(d, perdir) ==
    Flatten([k \in 1..(d - 1) |->
        [j \in 1..perdir |-> RepoFile("data/s" \o Pad3(k) \o "/x" \o ToString(j) \o ".bin", 10)]])

\* a single file below d nested directories (perdir = 1), or two files below
\* d - 1 nested directories, one of them one directory deeper
RECURSIVE Nested(_)
Nested(d) ==
    IF d <= 0 THEN ""
    ELSE IF d = 1 THEN "a/"
    ELSE Nested(d \div 2) \o Nested(d - d \div 2)

ChainRepo(d, perdir) ==
    IF perdir = 1 THEN <<RepoFile(Nested(d) \o "leaf.txt", 10)>>
    ELSE <<RepoFile(Nested(d - 1) \o "leaf.txt", 10), RepoFile(Nested(d - 1) \o "b/leaf.txt", 10)>>

RootFiles(r) == [k \in 1..r |-> RepoFile("root" \o ToString(k) \o ".md", 10)]

\* how far around MAX_DIRS the number of directories goes
TreeSpan == 2

TreeInputs ==
    {layout \o RootFiles(r) :
        layout \in UNION {{FlatRepo(d, perdir), DeepRepo(d, perdir), ChainRepo(d, perdir)} :
                            d \in (MAX_DIRS - TreeSpan)..(MAX_DIRS + TreeSpan),
                            perdir \in {1, 2}},
        r \in {0, 1, 2}}

InitTree ==
    /\ files \in TreeInputs
    /\ resp = <<>>
    /\ pc = "tree"
    /\ to_fetch = <<>>
    /\ semaphore = 0
    /\ task = <<>>
    /\ orphan = <<>>
    /\ result = NoResult
    /\ out = ""

\* tree = build_directory_tree(files)
BuildTree ==
    /\ pc = "tree"
    /\ out' = build_directory_tree(files)
    /\ pc' = "built"
    /\ UNCHANGED <<files, resp, to_fetch, semaphore, task, orphan, result>>

NextTree == BuildTree

SpecTree == InitTree /\ [][NextTree]_vars

----------------------------------------------------------------------------
(* Properties of collect_repo_context, stated for Spec                     *)

\* the candidates whose metadata request meets a rate-limit response
RateLimitedTasks ==
    {k \in Tasks : ~resp[to_fetch[k]].meta.error /\ resp[to_fetch[k]].meta.status = HTTP_FORBIDDEN}

\* the candidates whose metadata request raises: rate-limited, or no response
MetaRaisingTasks == RateLimitedTasks \cup {k \in Tasks : resp[to_fetch[k]].meta.error}

\* the candidates whose content request fails: transport error, timeout or
\* undecodable body (error), or a response that is not 200
ContentFailed(i) == resp[i].content.error \/ resp[i].content.status # HTTP_OK

\* every task is over, one way or the other
AllSettled == \A k \in Tasks : task[k] \in {"done", "failed"}

\* the lines of the tree in the first part of a digest
TreeLinesOf(parts) ==
    LET lines == SplitOn(parts[1].head, "\n")
    IN  SubSeq(lines, 3, Len(lines))

\* the tree lists the file of this path: in a summary a root-level file listed
\* under "Top-level files:", in a full tree the line of the entry
ListedIn(lines, path) ==
    IF Len(lines) >= 1 /\ lines[1] = SUMMARY_HEADER
    THEN CountSlash(path) = 0 /\ \E k \in 1..Len(lines) : lines[k] = "  " \o path
    ELSE \E k \in 1..Len(lines) : lines[k] = EntryLine(path)

\* every file section of the returned digest has its file listed in the tree
SectionsListed ==
    LET lines == TreeLinesOf(result.parts)
    IN  \A k \in 2..Len(result.parts) : ListedIn(lines, result.parts[k].path)

\* the tree of fs is rendered in full and not cut: at most MAX_DIRS directory
\* prefixes, and at most MAX_LINES entries (directories and files)
TreeUncut(fs) ==
    /\ Len(TreeDirs(fs)) <= MAX_DIRS
    /\ Len(TreeDirs(fs)) + Len(fs) <= MAX_LINES

\* C1: the digest that collect_repo_context returns (tree section, file
\* sections, partial section and the newlines that join them) is at most
\* MAX_CONTEXT_CHARS characters long.
C1_DigestWithinBudget ==
    pc = "returned" => DigestLen(result.parts) <= MAX_CONTEXT_CHARS

\* C2 as stated: every file with a section in the returned digest is listed in
\* the tree of that digest, whatever the mode and whether or not the tree is cut.
C2_EverySectionListed ==
    pc = "returned" => SectionsListed

\* C2, amended: when the file list induces at most MAX_DIRS directory prefixes
\* and its tree has at most MAX_LINES entries, every file with a section in the
\* returned digest is listed in the tree of that digest.
C2_SectionListedInUncutTree ==
    pc = "returned" /\ TreeUncut(files) => SectionsListed

\* a digest with two file sections under a tree of exactly MAX_LINES entries
C2_Witness ==
    /\ pc = "returned"
    /\ Len(TreeDirs(files)) + Len(files) = MAX_LINES
    /\ Len(result.parts) = 3
    /\ SectionsListed

\* C3: when the metadata request of some candidate meets a 403, the call ends
\* raising the rate-limit error, whatever the other requests meet and in
\* whatever order the tasks complete.
C3_RateLimitErrorRaised ==
    RateLimitedTasks # {} /\ pc = "raised" =>
        result = [kind |-> "raised", error |-> RateLimitError]

\* the part of C3 that the code keeps: with a rate-limited candidate no digest
\* is ever returned, and once every task is over one of them has failed
RateLimitNeverReturns ==
    RateLimitedTasks # {} =>
        /\ pc # "returned"
        /\ result.kind # "digest"
        /\ AllSettled => \E k \in Tasks : task[k] = "failed"

\* C4: a content request that fails aborts nothing.  When the call raises, the
\* exception is that of a metadata request; when no metadata request raises, the
\* call never raises and every task ends normally; in the returned digest a
\* candidate whose content request failed has no content and no section, and
\* every candidate carries the results of its own two requests.
C4_ContentFailureIsLocal ==
    /\ \A k \in Tasks : task[k] = "failed" => k \in MetaRaisingTasks
    /\ pc = "raised" =>
        \E k \in MetaRaisingTasks : result.error = get_file_commit_info(resp[to_fetch[k]].meta).raised
    /\ MetaRaisingTasks = {} /\ AllSettled /\ pc # "start" => \A k \in Tasks : task[k] = "done"
    /\ pc = "returned" =>
        \A k \in Tasks :
            LET i == to_fetch[k]
                info == ValueOf(get_file_commit_info(resp[i].meta))
            IN  /\ files[i].last_commit_timestamp = info[1]
                /\ files[i].commit_count = info[2]
                /\ IF ContentFailed(i)
                   THEN /\ files[i].content = NoneInt
                        /\ \A j \in 1..Len(result.parts) : result.parts[j].path # files[i].path
                   ELSE files[i].content = resp[i].content.text

\* a digest returned although the content request of a candidate met a transport
\* error, with a section for another candidate
C4_Witness ==
    /\ pc = "returned"
    /\ \E k \in Tasks : resp[to_fetch[k]].content.error
    /\ \E k \in Tasks :
            /\ ~ContentFailed(to_fetch[k])
            /\ \E j \in 2..Len(result.parts) : result.parts[j].path = files[to_fetch[k]].path

\* the tasks that hold a permit: both retrievals started, not both finished
InFlight == {k \in Tasks : task[k] = "running"}

\* C5: at every moment at most SEMAPHORE_PERMITS candidates are in flight, and
\* each of them holds one of the permits: a task starts its retrievals only by
\* taking a permit.
C5_AtMostTenInFlight ==
    pc # "start" =>
        /\ Cardinality(InFlight) <= SEMAPHORE_PERMITS
        /\ semaphore >= 0
        /\ semaphore + Cardinality(InFlight) = SEMAPHORE_PERMITS

\* every permit is taken and a candidate waits for one
C5_Witness ==
    /\ Cardinality(InFlight) = SEMAPHORE_PERMITS
    /\ \E k \in Tasks : task[k] = "waiting"

\* the record of file i once its two requests were answered, from the answers
Fetched(i) ==
    Enriched(RepoFile(files[i].path, files[i].size),
             ValueOf(fetch_file_content(resp[i].content)),
             ValueOf(get_file_commit_info(resp[i].meta)))

\* the digest as the input list and the answers determine it
ExpectedParts ==
    LET order == Prefix(filter_files(files), MAX_FILES_TO_FETCH)
        fetched == [i \in 1..Len(files) |->
                      IF \E k \in 1..Len(order) : order[k] = i THEN Fetched(i)
                      ELSE RepoFile(files[i].path, files[i].size)]
    IN  Assemble(fetched, order)

\* position of the file of this path in the order filter_files produces
RankOf(path) ==
    LET order == filter_files(files)
    IN  CHOOSE k \in 1..Len(order) : files[order[k]].path = path

\* C6: without a rate limit, the returned digest is the one the input list and
\* the answers determine, in whatever order the tasks started and completed: the
\* tree section first, then the file sections in the order of filter_files.
C6_DigestIndependentOfOrder ==
    pc = "returned" =>
        /\ result.parts = ExpectedParts
        /\ result.parts[1].kind = "tree"
        /\ \A j \in 2..Len(result.parts) :
            /\ result.parts[j].kind # "tree"
            /\ j > 2 => RankOf(result.parts[j - 1].path) < RankOf(result.parts[j].path)

\* a digest with a section for each of more candidates than there are permits,
\* returned after tasks had to wait for a permit
C6_Witness ==
    /\ pc = "returned"
    /\ Len(to_fetch) > SEMAPHORE_PERMITS
    /\ Len(result.parts) = Len(to_fetch) + 1

\* the candidates with content at assembly, their full sections, and the
\* running total when the loop reaches the k-th of them
Candidates == SelectSeq(to_fetch, LAMBDA i : files[i].content # NoneInt)
FullSections == [k \in 1..Len(Candidates) |-> FileSection(files[Candidates[k]])]
RunningTotal(k) == result.parts[1].len + SumLen(SubSeq(FullSections, 1, k - 1))
NotFitting ==
    {k \in 1..Len(Candidates) : RunningTotal(k) + FullSections[k].len > MAX_CONTEXT_CHARS}
FirstNotFitting == CHOOSE k \in NotFitting : \A j \in NotFitting : k <= j

\* C7: at the first candidate whose full section does not fit, the digest ends:
\* with one partial section for that candidate (its header, a prefix of its
\* content, the marker) when more than PARTIAL_MIN characters remain, with the
\* last full section otherwise.  The candidates before it have their full
\* sections and no candidate after it has any.
C7_StopAtFirstOverflow ==
    pc = "returned" /\ NotFitting # {} =>
        LET stop == FirstNotFitting
            remaining == MAX_CONTEXT_CHARS - RunningTotal(stop)
            parts == result.parts
        IN  /\ \A k \in 1..(stop - 1) : parts[k + 1] = FullSections[k]
            /\ IF remaining > PARTIAL_MIN
               THEN /\ Len(parts) = stop + 1
                    /\ parts[stop + 1].kind = "partial"
                    /\ parts[stop + 1].path = files[Candidates[stop]].path
                    /\ parts[stop + 1].head = "## File: " \o files[Candidates[stop]].path
                                                \o "\n" \o FENCE \o "\n"
                    /\ parts[stop + 1].body <= truncate_content(files[Candidates[stop]].content)
                    /\ parts[stop + 1].body <= remaining - PARTIAL_MARGIN
                    /\ parts[stop + 1].tail = "\n... [truncated]\n" \o FENCE \o "\n"
               ELSE Len(parts) = stop

\* assembly stopped with a partial section although a later candidate's full
\* section would have fitted in what remained
C7_Witness ==
    /\ pc = "returned"
    /\ NotFitting # {}
    /\ result.parts[Len(result.parts)].kind = "partial"
    /\ \E k \in (FirstNotFitting + 1)..Len(Candidates) :
            FullSections[k].len <= MAX_CONTEXT_CHARS - RunningTotal(FirstNotFitting)

----------------------------------------------------------------------------
(* Properties of filter_files, _score_file and build_directory_tree        *)

\* none of the exclusion conditions holds for f
Kept(f) ==
    /\ ~_is_in_skip_directory(f.path)
    /\ ~_has_skip_extension(f.path)
    /\ _get_filename(f.path) \notin SKIP_FILENAMES
    /\ f.size <= MAX_FILE_SIZE

\* C8: filter_files returns exactly the files for which no exclusion condition
\* holds, each once, by descending _score_file, files of equal score in input
\* order; the list of the ranking scenario yields README.md, src/main.py.
C8_FilterAndRank ==
    pc = "filtered" =>
        /\ \A k \in 1..Len(out) : out[k] \in 1..Len(files)
        /\ \A i \in 1..Len(files) : Kept(files[i]) <=> \E k \in 1..Len(out) : out[k] = i
        /\ \A j, k \in 1..Len(out) : j < k =>
            /\ out[j] # out[k]
            /\ \/ _score_file(files[out[j]]) > _score_file(files[out[k]])
               \/ /\ _score_file(files[out[j]]) = _score_file(files[out[k]])
                  /\ out[j] < out[k]
        /\ files = FilterExample => out = <<1, 2>>

\* the ranking scenario: two of the four files are left, README.md first
C8_Witness ==
    /\ pc = "filtered"
    /\ files = FilterExample
    /\ [k \in 1..Len(out) |-> files[out[k]].path] = <<"README.md", "src/main.py">>

\* C9: README.md at the root scores strictly higher than a root-level file whose
\* name does not begin with README in any case, whatever the two sizes up to
\* MAX_FILE_SIZE, the tier and the stem of the other file.
C9_RootReadmeFirst ==
    pc = "scored" /\ ~StartsWith(Upper(files[2].path), "README") => out[1] > out[2]

\* the closest case: the largest README.md against a small app.yaml (a
\* medium-priority name with an entry-point stem)
C9_Witness ==
    /\ pc = "scored"
    /\ files[1].size = MAX_FILE_SIZE
    /\ files[2].path = "app.yaml" /\ files[2].size = 0
    /\ out[1] - out[2] = 120

\* the distinct directory prefixes that the paths of fs induce: for every "/"
\* of a path, the path up to it
DirectoryPrefixes(fs) ==
    UNION {{SubSeq(fs[k].path, 1, i) : i \in {i \in 1..Len(fs[k].path) : Ch(fs[k].path, i) = "/"}} :
            k \in 1..Len(fs)}

IsSummary(tree) == StartsWith(tree, SUMMARY_HEADER)

\* C10: a file list inducing MAX_DIRS distinct directory prefixes (or fewer) is
\* rendered in full mode, one inducing MAX_DIRS + 1 (or more) in summary mode.
C10_ModeSwitchAtBoundary ==
    pc = "built" =>
        LET n == Cardinality(DirectoryPrefixes(files))
        IN  /\ n = MAX_DIRS => ~IsSummary(out)
            /\ n = MAX_DIRS + 1 => IsSummary(out)
            /\ IsSummary(out) <=> n > MAX_DIRS

\* a list inducing exactly MAX_DIRS prefixes, rendered as an indented tree whose
\* first line is its first directory
C10_Witness ==
    /\ pc = "built"
    /\ Cardinality(DirectoryPrefixes(files)) = MAX_DIRS
    /\ ~IsSummary(out)
    /\ StartsWith(out, TreeDirs(files)[1] \o "\n")

----------------------------------------------------------------------------
(* main.py: the POST /summarize handler, for a request that passed          *)
(* validation                                                              *)

HTTP_BAD_REQUEST == 400
HTTP_SERVER_ERROR == 500
HTTP_BAD_GATEWAY == 502

\* collect_repo_context(client, files, owner, repo, branch) and the call
\* collect_repo_context(github, files)
COLLECT_PARAMS == 5
COLLECT_ARGS == 2

\* LLMClient.summarize(self, owner, repo, context, tree), self apart, and the call
\* llm.summarize(owner, repo, context)
SUMMARIZE_PARAMS == 4
SUMMARIZE_ARGS == 3

\* A call that passes args positional arguments to a function of params
\* parameters, none with a default, binds them; otherwise it raises TypeError
\* before the function runs.
Binds(args, params) == args = params

\* bool(x) for a list or a tuple
Truthy(seq) == Len(seq) > 0

NotFoundError == "Repository 'owner/repo' not found. Make sure it exists and is public."
RateLimitMessage == "GitHub API rate limit exceeded. Try again later."

\* SummarizeResponse and ErrorResponse, as the status and the fields of the body
SummarizeResponse ==
    [status |-> HTTP_OK, fields |-> {"summary", "technologies", "structure"}]
ErrorResponse(status) == [status |-> status, fields |-> {"status", "message"}]

\* raise HTTPException(status_code, detail), as FastAPI answers it
HTTPException(status) == [status |-> status, fields |-> {"detail"}]

\* except GitHubClientError as e
OnGitHubClientError(message) ==
    ErrorResponse(IF Contains(Lower(message), "not found") THEN HTTP_NOT_FOUND
                  ELSE HTTP_BAD_GATEWAY)

\* except Exception, of the first try block
OnFetchException == ErrorResponse(HTTP_BAD_GATEWAY)

\* finally: await github.close()
Closed == [kind |-> "closed"]

\* get_repo_tree: the blobs of the listing as RepoFile, and the listing itself
\* (blobs and others items)
RepoTree(blobs, others) ==
    <<[k \in 1..blobs |-> RepoFile("f" \o Pad3(k) \o ".py", 10)],
      [k \in 1..(blobs + others) |-> IF k <= blobs THEN "blob" ELSE "tree"]>>

\* the second half of the handler: _get_llm_client, llm.summarize and its
\* except clauses
Summarize(env) ==
    IF ~env.key THEN HTTPException(HTTP_SERVER_ERROR)
    ELSE IF ~Binds(SUMMARIZE_ARGS, SUMMARIZE_PARAMS) THEN ErrorResponse(HTTP_SERVER_ERROR)
    ELSE IF env.llm = "ok" THEN SummarizeResponse
    ELSE ErrorResponse(HTTP_BAD_GATEWAY)

\* the handler from `if not files` on: the emptiness test, the call of
\* collect_repo_context with its except clauses, then the second half
AfterTree(fs, env) ==
    IF ~Truthy(fs) THEN ErrorResponse(HTTP_BAD_REQUEST)
    ELSE IF ~Binds(COLLECT_ARGS, COLLECT_PARAMS) THEN OnFetchException
    ELSE IF env.collect = "rate_limit" THEN OnGitHubClientError(RateLimitMessage)
    ELSE IF env.collect = "error" THEN OnFetchException
    ELSE Summarize(env)

\* branch = await github.get_default_branch(owner, repo)
GetDefaultBranch ==
    /\ pc = "request"
    /\ IF resp.branch = "ok"
       THEN pc' = "branch" /\ UNCHANGED <<out, result>>
       ELSE /\ out' = IF resp.branch = "not_found" THEN OnGitHubClientError(NotFoundError)
                      ELSE IF resp.branch = "rate_limit"
                           THEN OnGitHubClientError(RateLimitMessage)
                      ELSE OnFetchException
            /\ result' = Closed
            /\ pc' = "responded"
    /\ UNCHANGED <<files, resp, to_fetch, semaphore, task, orphan>>

\* files = await github.get_repo_tree(owner, repo, branch)
GetRepoTree ==
    /\ pc = "branch"
    /\ IF resp.tree.error
       THEN out' = OnFetchException /\ result' = Closed /\ pc' = "responded"
                /\ UNCHANGED files
       ELSE files' = RepoTree(resp.tree.blobs, resp.tree.others) /\ pc' = "tree"
                /\ UNCHANGED <<out, result>>
    /\ UNCHANGED <<resp, to_fetch, semaphore, task, orphan>>

\* the rest of the handler, up to its response
Respond ==
    /\ pc = "tree"
    /\ out' = AfterTree(files, resp)
    /\ result' = Closed
    /\ pc' = "responded"
    /\ UNCHANGED <<files, resp, to_fetch, semaphore, task, orphan>>

\* the largest number of blobs in a listing
MaxBlobs == 2

\* what the request meets: the answer to the default-branch lookup, the tree
\* listing, what collecting the context ends with, whether NEBIUS_API_KEY is
\* set, and the answer of the LLM
Environments ==
    [branch : {"ok", "not_found", "rate_limit", "error"},
     tree : {[error |-> TRUE, blobs |-> 0, others |-> 0]}
            \cup [error : {FALSE}, blobs : 0..MaxBlobs, others : {0, 1}],
     collect : {"digest", "rate_limit", "error"},
     key : BOOLEAN,
     llm : {"ok", "api_error", "empty", "invalid_json"}]

InitHandler ==
    /\ resp \in Environments
    /\ files = <<>>
    /\ pc = "request"
    /\ to_fetch = <<>>
    /\ semaphore = 0
    /\ task = <<>>
    /\ orphan = <<>>
    /\ result = NoResult
    /\ out = [status |-> 0, fields |-> {}]

NextHandler == GetDefaultBranch \/ GetRepoTree \/ Respond

SpecHandler == InitHandler /\ [][NextHandler]_vars

\* every external call of the request succeeds: the lookup, a listing with a
\* blob, every fetch of the collection, the API key and the LLM
AllSucceed ==
    /\ resp.branch = "ok"
    /\ ~resp.tree.error /\ resp.tree.blobs > 0
    /\ resp.collect = "digest"
    /\ resp.key
    /\ resp.llm = "ok"

\* C11: when every external call succeeds, the handler responds with status 200
\* and the fields summary, technologies and structure.
C11_SuccessResponds200 ==
    pc = "responded" /\ AllSucceed => out = SummarizeResponse

----------------------------------------------------------------------------
(* _score_file on two files of different depth                               *)

\* the largest number of path segments
MaxDepth == 3

\* a path of depth segments that ends with name
RECURSIVE Nest(_, _)
Nest(depth, name) == IF depth <= 1 THEN name ELSE "pkg/" \o Nest(depth - 1, name)

DepthNames == {"x.txt", "README.md", "main.py", "setup.py", "config.yaml", "util.py"}

DepthSizes == {SMALL_SIZE - 1, MID_SIZE, LARGE_SIZE + 1}

\* two files that filter_files keeps, the first with fewer segments than the
\* second
InitDepth ==
    /\ \E d1 \in 1..MaxDepth, d2 \in 1..MaxDepth, n1 \in DepthNames, n2 \in DepthNames,
          s1 \in DepthSizes, s2 \in DepthSizes :
            /\ d1 < d2
            /\ files = <<RepoFile(Nest(d1, n1), s1), RepoFile(Nest(d2, n2), s2)>>
            /\ ~Skipped(files[1]) /\ ~Skipped(files[2])
    /\ resp = <<>>
    /\ pc = "score"
    /\ to_fetch = <<>>
    /\ semaphore = 0
    /\ task = <<>>
    /\ orphan = <<>>
    /\ result = NoResult
    /\ out = <<>>

SpecDepth == InitDepth /\ [][NextScore]_vars

\* C12: of two files that survive filtering, the one with strictly fewer path
\* segments scores strictly higher, whatever the tiers, sizes and entry-point
\* bonuses.
C12_ShallowerScoresHigher ==
    pc = "scored" /\ Len(Parts(files[1].path)) < Len(Parts(files[2].path))
        => out[1] > out[2]

----------------------------------------------------------------------------
(* Ownership of the records during the fetch phase                           *)

\* the tasks whose candidate is file i
TasksOf(i) == {k \in Tasks : to_fetch[k] = i}

\* the step is the completion of task k and of no other task
Completes(k) ==
    /\ task[k] = "running"
    /\ task'[k] = "done"
    /\ \A j \in Tasks \ {k} : task'[j] = task[j]

\* C13: each candidate has one task; a step that changes the record of a file is
\* the completion of the task created for that file and changes no other
\* record, under every interleaving; and once the assembly has read the records
\* (the digest is returned) no record changes.
C13_RecordWrittenByOwnTask ==
    /\ [](\A i \in 1..Len(files) : Cardinality(TasksOf(i)) <= 1)
    /\ [][\A i \in 1..Len(files) :
            files'[i] # files[i] =>
                /\ pc = "gather" \/ pc = "raised"
                /\ \E k \in TasksOf(i) : Completes(k)
                /\ \A j \in 1..Len(files) : j # i => files'[j] = files[j]]_vars
    /\ [][pc = "returned" => files' = files]_vars

\* a task has completed and written its record while another task, holding a
\* permit, has not written its own yet
C13_Witness ==
    /\ pc = "gather"
    /\ \E j \in Tasks, k \in Tasks :
        /\ task[j] = "done" /\ files[to_fetch[j]].content # NoneInt
        /\ task[k] = "running" /\ files[to_fetch[k]].content = NoneInt

----------------------------------------------------------------------------
(* What is still running when collect_repo_context ends                      *)

\* task k is over: it completed or raised, its permit is released and neither of
\* its retrievals is still in flight
Over(k) == task[k] \in {"done", "failed"} /\ ~orphan[k]

\* C14: when collect_repo_context has finished, by returning a digest or by
\* raising the rate-limit error, every fetch task it started is over and every
\* permit is released: no retrieval is in flight and no record is written
\* afterwards.
C14_NothingRunsAfterEnd ==
    /\ pc = "returned" \/ (pc = "raised" /\ result.error = RateLimitError)
    => /\ \A k \in Tasks : Over(k)
       /\ semaphore = SEMAPHORE_PERMITS

============================================================================
